---- MODULE Spec2Model ----
(***************************************************************************)
(* BIP39 mnemonic generation, checksum validation and seed derivation of   *)
(* wallet_rs (src/src/bip39/bip39.rs, src/src/entropy/mod.rs).             *)
(*                                                                         *)
(* Representation.  A byte is an integer 0..255 and Vec<u8> a sequence of  *)
(* bytes.  A bit string (Rust String of '0'/'1') is a sequence over {0,1}. *)
(* A hexadecimal string is a sequence of digit values 0..15 (the character *)
(* "0".."9","a".."f" a digit stands for).  A u32 is a pair <<hi, lo>> of   *)
(* 16-bit halves, value hi * 65536 + lo, so that no intermediate value     *)
(* exceeds the range of the model checker's integers.  A word is a string. *)
(***************************************************************************)
EXTENDS Integers, Sequences, FiniteSets, TLC

(***************************************************************************)
(* Generic helpers                                                         *)
(***************************************************************************)
\* 2^n for 0 <= n <= 16
Pow2Table ==
    <<1, 2, 4, 8, 16, 32, 64, 128, 256, 512, 1024, 2048, 4096, 8192, 16384,
      32768, 65536>>
Pow2(n) == Pow2Table[n + 1]

\* s[from+1 .. to] : the Rust slice s[from..to] (0-based, end exclusive)
Slice(s, from, to) == SubSeq(s, from + 1, to)

\* n copies of x
Repeat(x, n) == [i \in 1..n |-> x]

\* left-pad s with x up to width w (format width with the 0 flag)
PadLeft(s, w, x) == IF Len(s) >= w THEN s ELSE Repeat(x, w - Len(s)) \o s

\* concatenation of a sequence of sequences
RECURSIVE Concat(_)
Concat(ss) ==
    IF Len(ss) = 0 THEN <<>> ELSE Concat(SubSeq(ss, 1, Len(ss) - 1)) \o ss[Len(ss)]

\* digits of n in the given radix, most significant first, no leading zeros
\* ("0" for zero): what {:b} and {:x} print for an integer below 2^31
RECURSIVE Digits(_, _)
Digits(n, radix) ==
    IF n < radix THEN <<n>> ELSE Append(Digits(n \div radix, radix), n % radix)

\* value of a digit sequence in the given radix (from_str_radix), below 2^31
RECURSIVE FromDigits(_, _)
FromDigits(ds, radix) ==
    IF Len(ds) = 0 THEN 0
    ELSE FromDigits(SubSeq(ds, 1, Len(ds) - 1), radix) * radix + ds[Len(ds)]

(***************************************************************************)
(* SHA-256 (sha2::Sha256::digest), FIPS 180-4, on 32-bit words <<hi, lo>>. *)
(***************************************************************************)
RECURSIVE XorBits(_, _)
XorBits(a, b) ==
    IF a = 0 THEN b
    ELSE IF b = 0 THEN a
    ELSE 2 * XorBits(a \div 2, b \div 2) + ((a + b) % 2)

RECURSIVE AndBits(_, _)
AndBits(a, b) ==
    IF a = 0 \/ b = 0 THEN 0
    ELSE 2 * AndBits(a \div 2, b \div 2) + ((a % 2) * (b % 2))

\* bitwise operations on bytes, tabulated once
XorTable == [a \in 0..255 |-> [b \in 0..255 |-> XorBits(a, b)]]
AndTable == [a \in 0..255 |-> [b \in 0..255 |-> AndBits(a, b)]]

Xor16(a, b) ==
    XorTable[a \div 256][b \div 256] * 256 + XorTable[a % 256][b % 256]
And16(a, b) ==
    AndTable[a \div 256][b \div 256] * 256 + AndTable[a % 256][b % 256]

Xor32(x, y) == <<Xor16(x[1], y[1]), Xor16(x[2], y[2])>>
And32(x, y) == <<And16(x[1], y[1]), And16(x[2], y[2])>>
Not32(x) == <<65535 - x[1], 65535 - x[2]>>
Add32(x, y) ==
    LET lo == x[2] + y[2]
    IN  <<(x[1] + y[1] + (lo \div 65536)) % 65536, lo % 65536>>

\* logical shift right by n, 0 <= n < 32
Shr32(x, n) ==
    IF n >= 16 THEN <<0, x[1] \div Pow2(n - 16)>>
    ELSE <<x[1] \div Pow2(n), (x[2] \div Pow2(n)) + (x[1] % Pow2(n)) * Pow2(16 - n)>>

\* rotate right by n, 0 <= n < 32
Rotr32(x, n) ==
    LET y == IF n >= 16 THEN <<x[2], x[1]>> ELSE x
        m == n % 16
    IN  <<(y[1] \div Pow2(m)) + (y[2] % Pow2(m)) * Pow2(16 - m),
          (y[2] \div Pow2(m)) + (y[1] % Pow2(m)) * Pow2(16 - m)>>

Sha256K ==
    <<
       <<17034, 12184>>, <<28983, 17553>>, <<46528, 64463>>, <<59829, 56229>>,
       <<14678, 49755>>, <<23025, 4593>>, <<37439, 33444>>, <<43804, 24277>>,
       <<55303, 43672>>, <<4739, 23297>>, <<9265, 34238>>, <<21772, 32195>>,
       <<29374, 23924>>, <<32990, 45566>>, <<39900, 1703>>, <<49563, 61812>>,
       <<58523, 27073>>, <<61374, 18310>>, <<4033, 40390>>, <<9228, 41420>>,
       <<11753, 11375>>, <<19060, 33962>>, <<23728, 43484>>, <<30457, 35034>>,
       <<38974, 20818>>, <<43057, 50797>>, <<45059, 10184>>, <<48985, 32711>>,
       <<50912, 3059>>, <<54695, 37191>>, <<1738, 25425>>, <<5161, 10599>>,
       <<10167, 2693>>, <<11803, 8504>>, <<19756, 28156>>, <<21304, 3347>>,
       <<25866, 29524>>, <<30314, 2747>>, <<33218, 51502>>, <<37490, 11397>>,
       <<41663, 59553>>, <<43034, 26187>>, <<49739, 35696>>, <<51052, 20899>>,
       <<53650, 59417>>, <<54937, 1572>>, <<62478, 13701>>, <<4202, 41072>>,
       <<6564, 49430>>, <<7735, 27656>>, <<10056, 30540>>, <<13488, 48309>>,
       <<14620, 3251>>, <<20184, 43594>>, <<23452, 51791>>, <<26670, 28659>>,
       <<29839, 33518>>, <<30885, 25455>>, <<33992, 30740>>, <<36039, 520>>,
       <<37054, 65530>>, <<42064, 27883>>, <<48889, 41975>>, <<50801, 30962>>
    >>

Sha256H0 ==
    <<
       <<27145, 58983>>, <<47975, 44677>>, <<15470, 62322>>, <<42319, 62778>>,
       <<20750, 21119>>, <<39685, 26764>>, <<8067, 55723>>, <<23520, 52505>>
    >>

SmallSigma0(x) == Xor32(Xor32(Rotr32(x, 7), Rotr32(x, 18)), Shr32(x, 3))
SmallSigma1(x) == Xor32(Xor32(Rotr32(x, 17), Rotr32(x, 19)), Shr32(x, 10))
BigSigma0(x) == Xor32(Xor32(Rotr32(x, 2), Rotr32(x, 13)), Rotr32(x, 22))
BigSigma1(x) == Xor32(Xor32(Rotr32(x, 6), Rotr32(x, 11)), Rotr32(x, 25))
Ch(x, y, z) == Xor32(And32(x, y), And32(Not32(x), z))
Maj(x, y, z) == Xor32(Xor32(And32(x, y), And32(x, z)), And32(y, z))

\* message padding: 0x80, zeros up to 56 mod 64, the bit length on 8 bytes
Sha256Pad(bytes) ==
    LET n == Len(bytes)
        z == (119 - n) % 64
        bitlen == 8 * n
    IN  bytes \o <<128>> \o Repeat(0, z) \o Repeat(0, 4)
        \o <<(bitlen \div 16777216) % 256, (bitlen \div 65536) % 256,
             (bitlen \div 256) % 256, bitlen % 256>>

\* the 16 big-endian words of block b (0-based) of the padded message
Sha256BlockWords(padded, b) ==
    [i \in 1..16 |->
        LET o == 64 * b + 4 * (i - 1)
        IN  <<padded[o + 1] * 256 + padded[o + 2], padded[o + 3] * 256 + padded[o + 4]>>]

RECURSIVE Sha256Schedule(_)
Sha256Schedule(w) ==
    IF Len(w) = 64 THEN w
    ELSE LET t == Len(w) + 1
             x == Add32(Add32(SmallSigma1(w[t - 2]), w[t - 7]),
                        Add32(SmallSigma0(w[t - 15]), w[t - 16]))
         IN  Sha256Schedule(Append(w, x))

\* round t (1-based) of the compression function on working variables s
Sha256Round(s, w, t) ==
    LET t1 == Add32(Add32(Add32(s[8], BigSigma1(s[5])), Ch(s[5], s[6], s[7])),
                    Add32(Sha256K[t], w[t]))
        t2 == Add32(BigSigma0(s[1]), Maj(s[1], s[2], s[3]))
    IN  <<Add32(t1, t2), s[1], s[2], s[3], Add32(s[4], t1), s[5], s[6], s[7]>>

\* rounds lo..hi in order (the range is halved, and the left half computed
\* before the right half starts, to keep the evaluation shallow)
RECURSIVE Sha256Rounds(_, _, _, _)
Sha256Rounds(s, w, lo, hi) ==
    IF lo = hi THEN Sha256Round(s, w, lo)
    ELSE LET mid == (lo + hi) \div 2
             left == Sha256Rounds(s, w, lo, mid)
         IN  IF left = left THEN Sha256Rounds(left, w, mid + 1, hi) ELSE left

RECURSIVE Sha256Blocks(_, _, _)
Sha256Blocks(padded, b, h) ==
    IF 64 * b >= Len(padded) THEN h
    ELSE LET w == Sha256Schedule(Sha256BlockWords(padded, b))
             s == Sha256Rounds(h, w, 1, 64)
         IN  Sha256Blocks(padded, b + 1, [i \in 1..8 |-> Add32(h[i], s[i])])

\* the 32-byte digest
Sha256Digest(bytes) ==
    LET h == Sha256Blocks(Sha256Pad(bytes), 0, Sha256H0)
    IN  [i \in 1..32 |->
            LET x == h[((i - 1) \div 4) + 1]
                half == IF ((i - 1) % 4) < 2 THEN x[1] ELSE x[2]
            IN  IF (i - 1) % 2 = 0 THEN half \div 256 ELSE half % 256]

(***************************************************************************)
(* Result<T, String>, and a panic (an unwrap of a failure, a slice out of  *)
(* range), which unwinds the call instead of returning a value             *)
(***************************************************************************)
Ok(v) == [tag |-> "Ok", val |-> v]
Err(m) == [tag |-> "Err", msg |-> m]
Panic == [tag |-> "Panic"]

(***************************************************************************)
(* Library conversions used by bip39.rs                                    *)
(***************************************************************************)
\* to_binary::BinaryString::from(bytes): 8 binary digits per byte
BinaryString(bytes) == Concat([i \in 1..Len(bytes) |-> PadLeft(Digits(bytes[i], 2), 8, 0)])

\* u32::from_str_radix(bits, 2) on at most 32 binary digits, as <<hi, lo>>
u32_from_str_radix(bits) ==
    LET n == Len(bits)
    IN  IF n <= 16 THEN <<0, FromDigits(bits, 2)>>
        ELSE <<FromDigits(SubSeq(bits, 1, n - 16), 2),
               FromDigits(SubSeq(bits, n - 15, n), 2)>>

\* the digits {:x} prints for the u32 <<hi, lo>>
LowerHex(n) ==
    IF n[1] = 0 THEN Digits(n[2], 16)
    ELSE Digits(n[1], 16) \o PadLeft(Digits(n[2], 16), 4, 0)

\* hex::decode: two digits per byte; an odd number of digits is an error
hex_decode(hex) ==
    IF Len(hex) % 2 = 1 THEN Err("OddLength")
    ELSE Ok([i \in 1..(Len(hex) \div 2) |-> 16 * hex[2 * i - 1] + hex[2 * i]])

\* pbkdf2::pbkdf2::<Hmac<Sha512>>(password, salt, rounds, out): the derived
\* key is kept symbolic, as the function applied to its four inputs
pbkdf2_hmac_sha512(password, salt, rounds, dklen) ==
    [prf |-> "HmacSha512", password |-> password, salt |-> salt,
     rounds |-> rounds, dklen |-> dklen]

(***************************************************************************)
(* enum WordsCount and TryFrom<usize>                                      *)
(***************************************************************************)
WordsCount == {"_12", "_15", "_18", "_21", "_24"}

\* `word_count as usize`: the discriminant of the variant
AsUsize(v) ==
    CASE v = "_12" -> 12
      [] v = "_15" -> 15
      [] v = "_18" -> 18
      [] v = "_21" -> 21
      [] v = "_24" -> 24

\* faulty variant: the arm for 21 is missing
try_from_Without21(from) ==
    CASE from = 12 -> Ok("_12")
      [] from = 15 -> Ok("_15")
      [] from = 18 -> Ok("_18")
      [] from = 24 -> Ok("_24")
      [] OTHER -> Err("Invalid argument to convert WordsCount " \o ToString(from))

try_from(from) ==
    CASE from = 12 -> Ok("_12")
      [] from = 15 -> Ok("_15")
      [] from = 18 -> Ok("_18")
      [] from = 21 -> Ok("_21")
      [] from = 24 -> Ok("_24")
      [] OTHER -> Err("Invalid argument to convert WordsCount " \o ToString(from))

(***************************************************************************)
(* bitstring_to_hex                                                        *)
(***************************************************************************)
\* faulty variant: {:x} in place of {:08x}
HexPacket_Unpadded(bitstring, i) ==
    LowerHex(u32_from_str_radix(Slice(bitstring, i * 32, i * 32 + 32)))

\* format!("{:08x}", n) of the i-th 32-bit packet (i from 0)
HexPacket(bitstring, i) ==
    PadLeft(LowerHex(u32_from_str_radix(Slice(bitstring, i * 32, i * 32 + 32))), 8, 0)

bitstring_to_hex(bitstring) ==
    LET len == Len(bitstring) \div 32
        remainder == Len(bitstring) % 32
        packets == Concat([i \in 1..len |-> HexPacket(bitstring, i - 1)])
    IN  IF remainder > 0
        THEN packets \o LowerHex(u32_from_str_radix(
                 Slice(bitstring, Len(bitstring) - remainder, Len(bitstring))))
        ELSE packets

(***************************************************************************)
(* The word list src/bip39/english.txt and get_dictionary                  *)
(***************************************************************************)
DictSize == 2048

\* the word list as shipped: DictSize distinct words, one per line
EnglishTxt == SubSeq([i \in 1..DictSize |-> "word" \o ToString(i - 1)], 1, DictSize)

\* the states the word list resource can be in when the process starts
FileStates == {"ok", "missing", "short", "dup"}

\* the lines of a readable word list: as shipped, with the last line lost,
\* or with the last line a copy of the first
FileLines(f) ==
    CASE f = "ok" -> EnglishTxt
      [] f = "short" -> SubSeq(EnglishTxt, 1, DictSize - 1)
      [] f = "dup" -> [EnglishTxt EXCEPT ![DictSize] = EnglishTxt[1]]

\* File::open(filename).unwrap() panics when the file cannot be opened;
\* every line read is returned, unchecked
get_dictionary(f) == IF f = "missing" THEN Panic ELSE Ok(FileLines(f))

(***************************************************************************)
(* is_checksum_valid                                                       *)
(***************************************************************************)
\* faulty variant: the index counted from 1
position_FromOne(words, memo) ==
    IF \E i \in 1..Len(words) : words[i] = memo
    THEN [tag |-> "Some",
          val |-> CHOOSE i \in 1..Len(words) :
                      words[i] = memo /\ \A j \in 1..(i - 1) : words[j] # memo]
    ELSE [tag |-> "None"]

\* words.iter().position(|el| memo == el): the first index (from 0) of memo
position(words, memo) ==
    IF \E i \in 1..Len(words) : words[i] = memo
    THEN [tag |-> "Some",
          val |-> (CHOOSE i \in 1..Len(words) :
                      words[i] = memo /\ \A j \in 1..(i - 1) : words[j] # memo) - 1]
    ELSE [tag |-> "None"]

\* format!("Index for word {} not found!", memo)
NotFoundMessage(memo) == "Index for word " \o memo \o " not found!"

\* faulty variant: the loop goes on after a word without position and the
\* error names the last such word
RECURSIVE WordsToBitstring_LastError(_, _, _, _)
WordsToBitstring_LastError(words, mnemonics, k, bitstring) ==
    IF k > Len(mnemonics) THEN Ok(bitstring)
    ELSE LET pos == position(words, mnemonics[k])
             rest == WordsToBitstring_LastError(words, mnemonics, k + 1, bitstring)
         IN  IF pos.tag = "None"
             THEN IF rest.tag = "Err" THEN rest ELSE Err(NotFoundMessage(mnemonics[k]))
             ELSE WordsToBitstring_LastError(words, mnemonics, k + 1,
                      bitstring \o PadLeft(Digits(pos.val, 2), 11, 0))

\* the loop over the mnemonic from its k-th word on: the bit string of the
\* 11-bit positions, or the error of the first word that has no position
RECURSIVE WordsToBitstring(_, _, _, _)
WordsToBitstring(words, mnemonics, k, bitstring) ==
    IF k > Len(mnemonics) THEN Ok(bitstring)
    ELSE LET pos == position(words, mnemonics[k])
         IN  IF pos.tag = "None" THEN Err(NotFoundMessage(mnemonics[k]))
             ELSE WordsToBitstring(words, mnemonics, k + 1,
                      bitstring \o PadLeft(Digits(pos.val, 2), 11, 0))

\* res: what the call returns; entropy: the bytes hex::decode(entropy_hex)
\* yields on the way (empty when the call ends before)
is_checksum_valid(f, mnemonics) ==
    LET dict == get_dictionary(f)
        word_count == Len(mnemonics)
        entropy_len == (word_count \div 3) * 32
        checksum_len == entropy_len \div 32
    IN  IF dict.tag = "Panic" THEN [res |-> Panic, entropy |-> <<>>]
        ELSE
        LET loop == WordsToBitstring(dict.val, mnemonics, 1, <<>>)
        IN  IF loop.tag = "Err" THEN [res |-> loop, entropy |-> <<>>]
            ELSE IF entropy_len > Len(loop.val) THEN [res |-> Panic, entropy |-> <<>>]
            ELSE
            LET bitstring == loop.val
                entropy_hex == bitstring_to_hex(Slice(bitstring, 0, entropy_len))
                checksum_memo == Slice(bitstring, entropy_len, Len(bitstring))
                decoded == hex_decode(entropy_hex)
            IN  IF decoded.tag = "Err" \/ checksum_len > 256
                THEN [res |-> Panic, entropy |-> <<>>]
                ELSE
                LET checksum ==
                        Slice(BinaryString(Sha256Digest(decoded.val)), 0, checksum_len)
                IN  [res |-> Ok(checksum_memo = checksum), entropy |-> decoded.val]

(***************************************************************************)
(* generate_master_seed, generate_master_seed_with_password                *)
(***************************************************************************)
Iterations == 2048
SeedLen == 64

\* faulty variant: the separator after every word
RECURSIVE Join_Trailing(_, _)
Join_Trailing(ws, sep) ==
    IF Len(ws) = 0 THEN ""
    ELSE Join_Trailing(SubSeq(ws, 1, Len(ws) - 1), sep) \o ws[Len(ws)] \o sep

\* mnemonics.join(sep)
RECURSIVE Join(_, _)
Join(ws, sep) ==
    IF Len(ws) = 0 THEN ""
    ELSE IF Len(ws) = 1 THEN ws[1]
    ELSE Join(SubSeq(ws, 1, Len(ws) - 1), sep) \o sep \o ws[Len(ws)]

generate_master_seed_with_password(mnemonics, user_password) ==
    LET salt == "mnemonic" \o user_password
        password == Join(mnemonics, " ")
    IN  Ok(pbkdf2_hmac_sha512(password, salt, Iterations, SeedLen))

generate_master_seed(mnemonics) == generate_master_seed_with_password(mnemonics, "")

(***************************************************************************)
(* EntropySource                                                           *)
(***************************************************************************)
\* BasicEntropy: count / 8 bytes filled by thread_rng(); the bytes drawn are
\* start, start + step, ... modulo 256.
\* DummyEntropy (the tests' source): the decoded input, whatever the count.
get_random_bits(ent, count) ==
    IF ent.kind = "BasicEntropy"
    THEN [i \in 1..(count \div 8) |-> (ent.start + (i - 1) * ent.step) % 256]
    ELSE ent.input

(***************************************************************************)
(* generate_word_indices                                                   *)
(***************************************************************************)
\* faulty variant: slices of 10 bits
RECURSIVE IndicesLoop_Short(_, _, _)
IndicesLoop_Short(entropy_bits, start, word_indices) ==
    IF start >= Len(entropy_bits) THEN Ok(word_indices)
    ELSE IF start + 10 > Len(entropy_bits) THEN Panic
    ELSE IndicesLoop_Short(entropy_bits, start + 11,
             Append(word_indices, FromDigits(Slice(entropy_bits, start, start + 10), 2)))

\* for start in (0..len).step_by(11): the slice [start..start + 11] panics
\* when it runs past the end of the bit string
RECURSIVE IndicesLoop(_, _, _)
IndicesLoop(entropy_bits, start, word_indices) ==
    IF start >= Len(entropy_bits) THEN Ok(word_indices)
    ELSE IF start + 11 > Len(entropy_bits) THEN Panic
    ELSE IndicesLoop(entropy_bits, start + 11,
             Append(word_indices, FromDigits(Slice(entropy_bits, start, start + 11), 2)))

\* res: the indices returned (or the panic); entropy, entropy_bits: the
\* values of the locals of these names
generate_word_indices(word_count, ent) ==
    LET entropy_len == (AsUsize(word_count) \div 3) * 32
        entropy == get_random_bits(ent, entropy_len)
        checksum_len == entropy_len \div 32
        checksum == Slice(BinaryString(Sha256Digest(entropy)), 0, checksum_len)
        entropy_bits == BinaryString(entropy) \o checksum
    IN  [res |-> IndicesLoop(entropy_bits, 0, <<>>),
         entropy |-> entropy, entropy_bits |-> entropy_bits]

(***************************************************************************)
(* get_words_from_file                                                     *)
(***************************************************************************)
\* faulty variant: the loop over the positions ends at the first match
RECURSIVE InnerLoop_FirstMatch(_, _, _, _, _)
InnerLoop_FirstMatch(st, indices, index, word, pos) ==
    IF pos > Len(indices) THEN st
    ELSE IF indices[pos] = index
    THEN LET found == st.found_memos + 1
             memos == [st.mnemonics EXCEPT ![pos] = word]
         IN  [mnemonics |-> memos, found_memos |-> found, broke |-> found = Len(indices)]
    ELSE InnerLoop_FirstMatch(st, indices, index, word, pos + 1)

\* the loop over (position, i) of indices from pos (from 1) on, for
\* the word at `index` (from 0); st.broke: break 'file_loop was taken
RECURSIVE InnerLoop(_, _, _, _, _)
InnerLoop(st, indices, index, word, pos) ==
    IF pos > Len(indices) THEN st
    ELSE IF indices[pos] = index
    THEN LET found == st.found_memos + 1
             memos == [st.mnemonics EXCEPT ![pos] = word]
         IN  IF found = Len(indices)
             THEN [mnemonics |-> memos, found_memos |-> found, broke |-> TRUE]
             ELSE InnerLoop([mnemonics |-> memos, found_memos |-> found, broke |-> FALSE],
                            indices, index, word, pos + 1)
    ELSE InnerLoop(st, indices, index, word, pos + 1)

\* one iteration of 'file_loop (an index no position holds changes nothing)
FileLoopStep(st, words, indices, index) ==
    IF \A p \in 1..Len(indices) : indices[p] # index THEN st
    ELSE InnerLoop(st, indices, index, words[index + 1], 1)

\* 'file_loop over the words at indices lo..hi (from 0), in order, stopping
\* at the break (the range is halved to keep the evaluation shallow)
RECURSIVE FileLoop(_, _, _, _, _)
FileLoop(st, words, indices, lo, hi) ==
    IF lo > hi THEN st
    ELSE IF lo = hi THEN FileLoopStep(st, words, indices, lo)
    ELSE LET mid == (lo + hi) \div 2
             left == FileLoop(st, words, indices, lo, mid)
         IN  IF left.broke THEN left ELSE FileLoop(left, words, indices, mid + 1, hi)

get_words_from_file(f, indices) ==
    LET dict == get_dictionary(f)
        word_count == Len(indices)
        start == [mnemonics |-> [p \in 1..word_count |-> ""],
                  found_memos |-> 0, broke |-> FALSE]
    IN  IF dict.tag = "Panic" THEN Panic
        ELSE Ok(FileLoop(start, dict.val, indices, 0, Len(dict.val) - 1).mnemonics)

(***************************************************************************)
(* generate_mnemonics                                                      *)
(***************************************************************************)
\* res: the mnemonics returned (or the panic); gen: generate_word_indices
generate_mnemonics(f, word_count, ent) ==
    LET gen == generate_word_indices(word_count, ent)
    IN  [res |-> IF gen.res.tag = "Panic" THEN Panic
                 ELSE get_words_from_file(f, gen.res.val),
         gen |-> gen]

(***************************************************************************)
(* Bounds and inputs of the model                                          *)
(***************************************************************************)
MaxLoads == 2      \* calls that open the word list, per behaviour
MaxStep == 1       \* largest step between consecutive random bytes
MaxCount == 25     \* largest integer handed to WordsCount::try_from

\* first byte of the random bytes BasicEntropy draws
EntropyStarts == {0, 213, 255}

BasicSources ==
    {[kind |-> "BasicEntropy", start |-> s, step |-> d] :
        s \in EntropyStarts, d \in 0..MaxStep}

\* DummyEntropy::default() (d5a58c5fded9ac099f432a253dbffb68), and a source
\* that returns five bytes
DummySources ==
    {[kind |-> "DummyEntropy", input |-> i] :
        i \in {<<213, 165, 140, 95, 222, 217, 172, 9, 159, 67, 42, 37, 61, 191, 251, 104>>,
               <<1, 2, 3, 4, 5>>}}

Sources == BasicSources \cup DummySources

Passphrases == {"", "TREZOR"}

\* words a caller puts into a mnemonic: two of the word list, three that are
\* not in it (one differs from a listed word by case only, one is empty)
TamperWords == {"word5", "slick"}
SupplyPatterns ==
    {<<"word0">>, <<"word2047", "word1">>, <<"slick">>,
     <<"word0", "slick", "Word0">>, <<"word7", "", "slick", "word7">>}
SupplyLens == {0, 1, 3, 6, 9, 12, 13, 24, 27}

\* the mnemonic of n words that repeats the pattern
Patterned(pattern, n) == [p \in 1..n |-> pattern[((p - 1) % Len(pattern)) + 1]]

IndexSamples == {<<>>, <<0>>, <<5, 5>>, <<2047, 0, 2047>>, <<3, 1, 2, 1, 3>>, <<1, 2048>>}

(***************************************************************************)
(* State                                                                   *)
(***************************************************************************)
VARIABLES
    file,       \* state of the word list resource, fixed when the process starts
    loads,      \* number of times get_dictionary has opened the word list
    pc,         \* "idle": the caller runs; "called": a call is in progress;
                \* "aborted": a panic ended the process
    call,       \* the call in progress: [op, arg]
    mnemonics,  \* the caller's Mnemonics value
    origin,     \* how it was obtained: [kind, word_count, entropy]
    ret         \* the last call's [op, arg, res, aux]

vars == <<file, loads, pc, call, mnemonics, origin, ret>>

NoCall == [op |-> "none", arg |-> <<>>]
NoRet == [op |-> "none", arg |-> <<>>, res |-> <<>>, aux |-> <<>>]
NoOrigin == [kind |-> "none", word_count |-> "", entropy |-> <<>>]

InitRest ==
    /\ loads = 0
    /\ pc = "idle"
    /\ call = NoCall
    /\ mnemonics = <<>>
    /\ origin = NoOrigin
    /\ ret = NoRet

\* the word list as shipped
Init == file = "ok" /\ InitRest

\* the word list in any state
InitAnyFile == file \in FileStates /\ InitRest

(***************************************************************************)
(* The caller                                                              *)
(***************************************************************************)
\* start a call that keeps the caller's mnemonic
Invoke(op, arg) ==
    /\ pc = "idle"
    /\ pc' = "called"
    /\ call' = [op |-> op, arg |-> arg]
    /\ ret' = NoRet
    /\ UNCHANGED <<file, loads, mnemonics, origin>>

CallTryFrom(from) == Invoke("try_from", from)

\* let mnemonics = generate_mnemonics(word_count, &ent): a new binding
CallGenerateMnemonics(word_count, ent) ==
    /\ pc = "idle"
    /\ loads < MaxLoads
    /\ pc' = "called"
    /\ call' = [op |-> "generate_mnemonics", arg |-> <<word_count, ent>>]
    /\ ret' = NoRet
    /\ mnemonics' = <<>>
    /\ origin' = NoOrigin
    /\ UNCHANGED <<file, loads>>

CallGetWordsFromFile(indices) ==
    loads < MaxLoads /\ Invoke("get_words_from_file", indices)

CallIsChecksumValid ==
    loads < MaxLoads /\ Invoke("is_checksum_valid", mnemonics)

CallGenerateMasterSeed == Invoke("generate_master_seed", mnemonics)

CallGenerateMasterSeedWithPassword(user_password) ==
    Invoke("generate_master_seed_with_password", <<mnemonics, user_password>>)

\* a mnemonic supplied from outside
Supply(pattern, n) ==
    /\ pc = "idle"
    /\ mnemonics' = Patterned(pattern, n)
    /\ origin' = [NoOrigin EXCEPT !.kind = "supplied"]
    /\ ret' = NoRet
    /\ UNCHANGED <<file, loads, pc, call>>

\* mnemonics[p - 1] = word, on a generated mnemonic
Tamper(p, word) ==
    /\ pc = "idle"
    /\ origin.kind = "generated"
    /\ p \in DOMAIN mnemonics
    /\ mnemonics[p] # word
    /\ mnemonics' = [mnemonics EXCEPT ![p] = word]
    /\ origin' = [origin EXCEPT !.kind = "tampered"]
    /\ ret' = NoRet
    /\ UNCHANGED <<file, loads, pc, call>>

(***************************************************************************)
(* The calls                                                               *)
(***************************************************************************)
\* the call returns res (a panic ends the process instead)
Return(res, aux) ==
    /\ ret' = [op |-> call.op, arg |-> call.arg, res |-> res, aux |-> aux]
    /\ pc' = IF res.tag = "Panic" THEN "aborted" ELSE "idle"
    /\ call' = NoCall
    /\ UNCHANGED file

TryFrom ==
    /\ pc = "called" /\ call.op = "try_from"
    /\ Return(try_from(call.arg), <<>>)
    /\ UNCHANGED <<loads, mnemonics, origin>>

GenerateMnemonics ==
    /\ pc = "called" /\ call.op = "generate_mnemonics"
    /\ \E r \in {generate_mnemonics(file, call.arg[1], call.arg[2])} :
           /\ Return(r.res, r.gen)
           /\ loads' = IF r.gen.res.tag = "Panic" THEN loads ELSE loads + 1
           /\ mnemonics' = IF r.res.tag = "Ok" THEN r.res.val ELSE mnemonics
           /\ origin' = IF r.res.tag = "Ok"
                        THEN [kind |-> "generated", word_count |-> call.arg[1],
                              entropy |-> r.gen.entropy]
                        ELSE origin

GetWordsFromFile ==
    /\ pc = "called" /\ call.op = "get_words_from_file"
    /\ Return(get_words_from_file(file, call.arg), <<>>)
    /\ loads' = loads + 1
    /\ UNCHANGED <<mnemonics, origin>>

IsChecksumValid ==
    /\ pc = "called" /\ call.op = "is_checksum_valid"
    /\ \E r \in {is_checksum_valid(file, call.arg)} : Return(r.res, r.entropy)
    /\ loads' = loads + 1
    /\ UNCHANGED <<mnemonics, origin>>

GenerateMasterSeed ==
    /\ pc = "called" /\ call.op = "generate_master_seed"
    /\ Return(generate_master_seed(call.arg), <<>>)
    /\ UNCHANGED <<loads, mnemonics, origin>>

GenerateMasterSeedWithPassword ==
    /\ pc = "called" /\ call.op = "generate_master_seed_with_password"
    /\ Return(generate_master_seed_with_password(call.arg[1], call.arg[2]), <<>>)
    /\ UNCHANGED <<loads, mnemonics, origin>>

Next ==
    \/ \E from \in 0..MaxCount : CallTryFrom(from)
    \/ \E word_count \in WordsCount, ent \in Sources :
           CallGenerateMnemonics(word_count, ent)
    \/ \E indices \in IndexSamples : CallGetWordsFromFile(indices)
    \/ CallIsChecksumValid
    \/ CallGenerateMasterSeed
    \/ \E user_password \in Passphrases : CallGenerateMasterSeedWithPassword(user_password)
    \/ \E pattern \in SupplyPatterns, n \in SupplyLens : Supply(pattern, n)
    \/ \E p \in {1, Len(mnemonics)}, word \in TamperWords : Tamper(p, word)
    \/ TryFrom
    \/ GenerateMnemonics
    \/ GetWordsFromFile
    \/ IsChecksumValid
    \/ GenerateMasterSeed
    \/ GenerateMasterSeedWithPassword

Spec == Init /\ [][Next]_vars

SpecAnyFile == InitAnyFile /\ [][Next]_vars

(***************************************************************************)
(* Properties                                                              *)
(***************************************************************************)
AllowedCounts == {12, 15, 18, 21, 24}

\* ENT / 8 for a word count: the entropy bytes the claims speak of
EntBytes(n) == ((n \div 3) * 32) \div 8

\* the words of the word list as shipped
ListedWords == {EnglishTxt[i] : i \in 1..DictSize}

\* the caller holds, untouched, a mnemonic that generate_mnemonics made from
\* ENT / 8 bytes of entropy, and is_checksum_valid has just returned on it
ValidatedGenerated ==
    /\ ret.op = "is_checksum_valid"
    /\ origin.kind = "generated"
    /\ Len(origin.entropy) = EntBytes(AsUsize(origin.word_count))

\* C1: is_checksum_valid returns Ok(true) on every mnemonic that
\* generate_mnemonics produced from ENT / 8 bytes of entropy, for each of the
\* five word counts.
C1_ChecksumSelfConsistency == ValidatedGenerated => ret.res = Ok(TRUE)

C1_Witness ==
    /\ ValidatedGenerated
    /\ origin.word_count = "_24"
    /\ origin.entropy[1] = 213
    /\ ret.res = Ok(TRUE)

\* C2: the entropy bytes that the decode path of is_checksum_valid rebuilds
\* from the words equal, byte for byte, the entropy generate_mnemonics
\* encoded, leading zero bits and zero bytes included.
C2_StructuralRoundTrip == ValidatedGenerated => ret.aux = origin.entropy

C2_Witness ==
    /\ ValidatedGenerated
    /\ origin.word_count = "_18"
    /\ origin.entropy[1] = 0 /\ origin.entropy[2] = 1 /\ origin.entropy[5] = 4
    /\ ret.aux = origin.entropy

\* the validated mnemonic has a word that is not in the word list
HasUnlistedWord ==
    /\ ret.op = "is_checksum_valid"
    /\ \E p \in 1..Len(ret.arg) : ret.arg[p] \notin ListedWords

\* C3: on a mnemonic with a word that is not in the word list,
\* is_checksum_valid returns the error that names the first such word,
\* whatever the other words and the length.
C3_UnknownWordNamed ==
    HasUnlistedWord =>
        LET first == CHOOSE p \in 1..Len(ret.arg) :
                         /\ ret.arg[p] \notin ListedWords
                         /\ \A q \in 1..(p - 1) : ret.arg[q] \in ListedWords
        IN  ret.res = [tag |-> "Err",
                       msg |-> "Index for word " \o ret.arg[first] \o " not found!"]

C3_Witness ==
    /\ HasUnlistedWord
    /\ Len(ret.arg) = 13
    /\ ret.arg[1] = "word0" /\ ret.arg[2] = "slick" /\ ret.arg[3] = "Word0"
    /\ ret.res = [tag |-> "Err", msg |-> "Index for word slick not found!"]

\* C4: is_checksum_valid fails with an error on every mnemonic of listed
\* words whose length is not 12, 15, 18, 21 or 24.
C4_InvalidCountRejected ==
    ( /\ ret.op = "is_checksum_valid"
      /\ Len(ret.arg) \notin AllowedCounts
      /\ \A p \in 1..Len(ret.arg) : ret.arg[p] \in ListedWords )
    => ret.res.tag = "Err"

\* the words, in order, with one space between neighbours
RECURSIVE SpaceSeparated(_)
SpaceSeparated(ws) ==
    IF Len(ws) = 0 THEN ""
    ELSE IF Len(ws) = 1 THEN ws[1]
    ELSE ws[1] \o " " \o SpaceSeparated(Tail(ws))

\* the seed PBKDF2-HMAC-SHA512 derives from the words and the passphrase
ExpectedSeed(ws, passphrase) ==
    [tag |-> "Ok",
     val |-> [prf |-> "HmacSha512", password |-> SpaceSeparated(ws),
              salt |-> "mnemonic" \o passphrase, rounds |-> 2048, dklen |-> 64]]

\* C5: generate_master_seed_with_password returns Ok with the 64 bytes that
\* PBKDF2-HMAC-SHA512 derives in 2048 iterations from the words joined by
\* single spaces and the salt "mnemonic" followed by the passphrase, for any
\* words and any passphrase; generate_master_seed is the same with the empty
\* passphrase.
C5_SeedDerivation ==
    /\ ret.op = "generate_master_seed_with_password"
           => ret.res = ExpectedSeed(ret.arg[1], ret.arg[2])
    /\ ret.op = "generate_master_seed" => ret.res = ExpectedSeed(ret.arg, "")

C5_Witness ==
    /\ ret.op = "generate_master_seed_with_password"
    /\ ret.arg[2] = "TREZOR"
    /\ Len(ret.arg[1]) = 12
    /\ origin.kind = "tampered" /\ ret.arg[1][1] = "slick"
    /\ ret.res.tag = "Ok" /\ ret.res.val.dklen = 64

\* C6: over any sequence of calls the word list is read at most once.
C6_LoadedOnce == loads <= 1

\* a call that reads the word list has ended
DictionaryCallEnded ==
    \/ ret.op \in {"is_checksum_valid", "get_words_from_file"}
    \/ ret.op = "generate_mnemonics" /\ ret.aux.res.tag = "Ok"

\* C7: when the word list cannot be read, has not 2048 entries or has a
\* duplicate, every call that needs it fails with DictionaryUnavailable.
C7_DictionaryValidated ==
    (file # "ok" /\ pc # "called" /\ DictionaryCallEnded)
        => ret.res = [tag |-> "Err", msg |-> "DictionaryUnavailable"]

\* C8: WordsCount::try_from(n) is Ok exactly for n in 12, 15, 18, 21, 24, with
\* the variant of value n, and an error otherwise; generate_mnemonics is
\* never called with another count.
C8_WordCountConversion ==
    /\ ret.op = "try_from" =>
           IF ret.arg \in AllowedCounts
           THEN ret.res.tag = "Ok" /\ ret.res.val \in WordsCount
                /\ AsUsize(ret.res.val) = ret.arg
           ELSE ret.res.tag = "Err"
    /\ call.op = "generate_mnemonics" => AsUsize(call.arg[1]) \in AllowedCounts

C8_Witness ==
    /\ ret.op = "try_from" /\ ret.arg = 21
    /\ ret.res = [tag |-> "Ok", val |-> "_21"]

\* the words returned for the indices: one per index, in order, each the
\* listed word at that index
WordsOfIndices(res, indices) ==
    /\ res.tag = "Ok"
    /\ Len(res.val) = Len(indices)
    /\ \A p \in 1..Len(indices) :
           res.val[p] = EnglishTxt[indices[p] + 1] /\ res.val[p] # ""

\* C9: for indices all in 0..2047, repeated or not, get_words_from_file
\* returns as many words, the word at position p being the listed word at
\* indices[p]; no position is left empty.
C9_IndexToWord ==
    /\ ( /\ ret.op = "get_words_from_file"
         /\ \A p \in 1..Len(ret.arg) : ret.arg[p] \in 0..2047 )
           => WordsOfIndices(ret.res, ret.arg)
    /\ (ret.op = "generate_mnemonics" /\ ret.aux.res.tag = "Ok")
           => WordsOfIndices(ret.res, ret.aux.res.val)

C9_Witness ==
    /\ ret.op = "get_words_from_file"
    /\ ret.arg = <<2047, 0, 2047>>
    /\ ret.res = [tag |-> "Ok", val |-> <<"word2047", "word0", "word2047">>]

\* value of the 11 bits from bit 11 * i on (i from 0), first bit heaviest
RECURSIVE GroupValue(_, _, _)
GroupValue(bits, i, j) ==
    IF j = 0 THEN 0 ELSE 2 * GroupValue(bits, i, j - 1) + bits[11 * i + j]

\* C10: when the source returns ENT / 8 bytes, the bit string of
\* generate_word_indices has ENT + CS = 11 * word_count bits and the function
\* returns word_count indices in 0..2047, the i-th the value of bits
\* [11 * i, 11 * i + 11) read heaviest bit first.
C10_BitPartition ==
    ( /\ ret.op = "generate_mnemonics"
      /\ Len(ret.aux.entropy) = EntBytes(AsUsize(ret.arg[1])) )
    => LET n == AsUsize(ret.arg[1])
           ent == (n \div 3) * 32
       IN  /\ Len(ret.aux.entropy_bits) = ent + (ent \div 32)
           /\ Len(ret.aux.entropy_bits) = 11 * n
           /\ ret.aux.res.tag = "Ok"
           /\ Len(ret.aux.res.val) = n
           /\ \A i \in 1..n :
                  /\ ret.aux.res.val[i] \in 0..2047
                  /\ ret.aux.res.val[i] = GroupValue(ret.aux.entropy_bits, i - 1, 11)

C10_Witness ==
    /\ ret.op = "generate_mnemonics"
    /\ ret.arg[1] = "_21"
    /\ Len(ret.aux.entropy) = 28
    /\ Len(ret.aux.entropy_bits) = 231
    /\ Len(ret.aux.res.val) = 21
    /\ ret.aux.res.val[1] = 2047
====
